---- MODULE Spec2Model ----
(***************************************************************************)
(* Two-hop postal-code -> weather pipeline.                                *)
(*   service-a  (Gateway,        POST /cep)     src/service-a/main.go      *)
(*   service-b  (Resolver Proxy, POST /weather) src/service-b/main.go      *)
(*                                                                         *)
(* Conventions of the model                                                *)
(*   - a text (request body, response body, postal code, city) is a tuple  *)
(*     of one-character strings;                                           *)
(*   - a float64 is a fixed-point integer in hundredths (2500 = 25.0);     *)
(*     binary rounding of float64 is not modelled;                         *)
(*   - JSON is encoded and parsed character by character for the subset    *)
(*     the services exchange (objects, strings without escapes, decimal    *)
(*     numbers, true/false). Key matching is exact-case.                   *)
(***************************************************************************)
EXTENDS Integers, Sequences, FiniteSets, TLC

(* ------------------------------- bounds -------------------------------- *)
MaxCodeLen == 9      \* postal codes of 0..MaxCodeLen characters are tried
MaxReading == 3      \* weather readings range over -MaxReading..MaxReading steps of 12.5 C
NumTraceIds == 2     \* size of the pool a fresh trace identifier is drawn from

(* --------------------------- program constants ------------------------- *)
BufSize == 1024

GatewayClientTimeout == 10

WeatherClientTimeout == 10

LocationClientTimeout == 0

MockTempC == 2500

(* ------------------------------ text helpers --------------------------- *)
DigitChars == <<"0", "1", "2", "3", "4", "5", "6", "7", "8", "9">>

IsDigit(c) == \E d \in 1..10 : DigitChars[d] = c

DigitVal(c) == (CHOOSE d \in 1..10 : DigitChars[d] = c) - 1

Min(x, y) == IF x <= y THEN x ELSE y

\* s[i..i+Len(lit)-1] = lit
MatchAt(s, i, lit) ==
    /\ i >= 1
    /\ i + Len(lit) - 1 <= Len(s)
    /\ SubSeq(s, i, i + Len(lit) - 1) = lit

\* literal texts of the two services
TxtInvalidZipcode ==
    <<"i","n","v","a","l","i","d"," ","z","i","p","c","o","d","e">>

TxtCanNotFind ==
    <<"c","a","n"," ","n","o","t"," ","f","i","n","d"," ",
      "z","i","p","c","o","d","e">>

TxtInternalError ==
    <<"I","n","t","e","r","n","a","l"," ","s","e","r","v","e","r"," ",
      "e","r","r","o","r">>

TxtInvalidJSON == <<"I","n","v","a","l","i","d"," ","J","S","O","N">>

TxtMethodNotAllowed ==
    <<"M","e","t","h","o","d"," ","n","o","t"," ","a","l","l","o","w","e","d">>

TxtErrorDecoding ==
    <<"E","r","r","o","r"," ","d","e","c","o","d","i","n","g"," ",
      "r","e","s","p","o","n","s","e">>

\* JSON keys
KeyCep == <<"c","e","p">>
KeyCity == <<"c","i","t","y">>
KeyTempC == <<"t","e","m","p","_","C">>
KeyTempF == <<"t","e","m","p","_","F">>
KeyTempK == <<"t","e","m","p","_","K">>
KeyLocalidade == <<"l","o","c","a","l","i","d","a","d","e">>
KeyUF == <<"u","f">>
KeyErro == <<"e","r","r","o">>
KeyCurrent == <<"c","u","r","r","e","n","t">>
KeyTempc == <<"t","e","m","p","_","c">>

(* ------------------------- encoding/json: writing ---------------------- *)
RECURSIVE Itoa(_)
Itoa(n) == IF n < 10 THEN <<DigitChars[n + 1]>>
           ELSE Itoa(n \div 10) \o <<DigitChars[(n % 10) + 1]>>

\* shortest decimal text of a fixed-point number (hundredths)
FormatFloat(x) ==
    LET a == IF x < 0 THEN -x ELSE x
        ip == a \div 100
        fp == a % 100
        frac == IF fp = 0 THEN <<>>
                ELSE IF fp % 10 = 0 THEN <<".", DigitChars[(fp \div 10) + 1]>>
                ELSE <<".", DigitChars[(fp \div 10) + 1], DigitChars[(fp % 10) + 1]>>
    IN (IF x < 0 THEN <<"-">> ELSE <<>>) \o Itoa(ip) \o frac

Quote(s) == <<"\"">> \o s \o <<"\"">>

Member(k, v) == Quote(k) \o <<":">> \o v

\* json.Marshal(CEPRequest)
MarshalCEPRequest(req) == <<"{">> \o Member(KeyCep, Quote(req.CEP)) \o <<"}">>

\* json.Marshal(CEPResponse)
MarshalCEPResponse(r) ==
    <<"{">> \o Member(KeyCity, Quote(r.City)) \o <<",">>
            \o Member(KeyTempC, FormatFloat(r.TempC)) \o <<",">>
            \o Member(KeyTempF, FormatFloat(r.TempF)) \o <<",">>
            \o Member(KeyTempK, FormatFloat(r.TempK)) \o <<"}">>

\* json.NewEncoder(w).Encode(v) writes the document followed by a newline
EncodeCEPResponse(r) == MarshalCEPResponse(r) \o <<"\n">>

(* ------------------------- encoding/json: reading ---------------------- *)
Fail(i) == [ok |-> FALSE, next |-> i]

Ok(v, i) == [ok |-> TRUE, v |-> v, next |-> i]

RECURSIVE SkipWs(_, _)
SkipWs(s, i) == IF i <= Len(s) /\ s[i] \in {" ", "\n"} THEN SkipWs(s, i + 1) ELSE i

\* position of the closing quote at or after i, 0 if none
RECURSIVE StrEnd(_, _)
StrEnd(s, i) == IF i > Len(s) THEN 0
                ELSE IF s[i] = "\"" THEN i
                ELSE StrEnd(s, i + 1)

ParseString(s, i) ==
    IF i <= Len(s) /\ s[i] = "\""
    THEN LET e == StrEnd(s, i + 1)
         IN IF e = 0 THEN Fail(i)
            ELSE Ok([t |-> "str", s |-> SubSeq(s, i + 1, e - 1)], e + 1)
    ELSE Fail(i)

\* first position at or after i that holds no digit
RECURSIVE DigitsEnd(_, _)
DigitsEnd(s, i) == IF i <= Len(s) /\ IsDigit(s[i]) THEN DigitsEnd(s, i + 1) ELSE i

RECURSIVE Atoi(_)
Atoi(ds) == IF Len(ds) = 0 THEN 0
            ELSE 10 * Atoi(SubSeq(ds, 1, Len(ds) - 1)) + DigitVal(ds[Len(ds)])

\* -?digits(.digits)? with at most two fraction digits, as hundredths
ParseNumber(s, i) ==
    LET neg == i <= Len(s) /\ s[i] = "-"
        j == IF neg THEN i + 1 ELSE i
        e == DigitsEnd(s, j)
    IN IF e = j THEN Fail(i)
       ELSE LET ip == Atoi(SubSeq(s, j, e - 1))
                hasFrac == e <= Len(s) /\ s[e] = "."
                fe == IF hasFrac THEN DigitsEnd(s, e + 1) ELSE e
                fd == IF hasFrac THEN SubSeq(s, e + 1, fe - 1) ELSE <<>>
                fp == IF Len(fd) = 1 THEN 10 * Atoi(fd) ELSE Atoi(fd)
                val == 100 * ip + fp
            IN IF hasFrac /\ (Len(fd) = 0 \/ Len(fd) > 2) THEN Fail(i)
               ELSE Ok([t |-> "num", n |-> IF neg THEN -val ELSE val], fe)

ParseLiteral(s, i) ==
    IF MatchAt(s, i, <<"t","r","u","e">>) THEN Ok([t |-> "bool", b |-> TRUE], i + 4)
    ELSE IF MatchAt(s, i, <<"f","a","l","s","e">>) THEN Ok([t |-> "bool", b |-> FALSE], i + 5)
    ELSE Fail(i)

RECURSIVE ParseValue(_, _)
RECURSIVE ParseMembers(_, _, _)
\* members of an object after "{" or ","; acc is the members read so far
ParseMembers(s, i, acc) ==
    LET k == ParseString(s, SkipWs(s, i))
    IN IF ~k.ok THEN Fail(i)
       ELSE LET c == SkipWs(s, k.next)
            IN IF ~(c <= Len(s) /\ s[c] = ":") THEN Fail(i)
               ELSE LET v == ParseValue(s, SkipWs(s, c + 1))
                    IN IF ~v.ok THEN Fail(i)
                       ELSE LET n == SkipWs(s, v.next)
                                acc2 == Append(acc, [k |-> k.v.s, v |-> v.v])
                            IN IF n > Len(s) THEN Fail(i)
                               ELSE IF s[n] = "," THEN ParseMembers(s, n + 1, acc2)
                               ELSE IF s[n] = "}" THEN Ok([t |-> "obj", m |-> acc2], n + 1)
                               ELSE Fail(i)

ParseValue(s, i) ==
    IF i > Len(s) THEN Fail(i)
    ELSE IF s[i] = "{"
         THEN LET j == SkipWs(s, i + 1)
              IN IF j <= Len(s) /\ s[j] = "}" THEN Ok([t |-> "obj", m |-> <<>>], j + 1)
                 ELSE ParseMembers(s, i + 1, <<>>)
    ELSE IF s[i] = "\"" THEN ParseString(s, i)
    ELSE IF s[i] = "-" \/ IsDigit(s[i]) THEN ParseNumber(s, i)
    ELSE ParseLiteral(s, i)

\* json.NewDecoder(r).Decode: the first value of the stream, the rest is left unread
DecodeStream(s) == ParseValue(s, SkipWs(s, 1))

\* json.Unmarshal: the whole input must be one value
UnmarshalDoc(s) ==
    LET v == ParseValue(s, SkipWs(s, 1))
    IN IF v.ok /\ SkipWs(s, v.next) > Len(s) THEN v ELSE Fail(1)

HasKey(obj, k) == \E j \in 1..Len(obj.m) : obj.m[j].k = k

\* the last member named k wins
Lookup(obj, k) ==
    LET j == CHOOSE x \in 1..Len(obj.m) :
                 obj.m[x].k = k /\ \A y \in (x + 1)..Len(obj.m) : obj.m[y].k # k
    IN obj.m[j].v

\* a struct field of JSON type ty: absent keeps the zero value, a value of another type is an error
FieldOk(obj, k, ty) == HasKey(obj, k) => Lookup(obj, k).t = ty

StrField(obj, k) == IF HasKey(obj, k) THEN Lookup(obj, k).s ELSE <<>>

NumField(obj, k) == IF HasKey(obj, k) THEN Lookup(obj, k).n ELSE 0

BoolField(obj, k) == IF HasKey(obj, k) THEN Lookup(obj, k).b ELSE FALSE

\* Decode(&CEPRequest)
DecodeCEPRequest(body) ==
    LET v == DecodeStream(body)
    IN IF v.ok /\ v.v.t = "obj" /\ FieldOk(v.v, KeyCep, "str")
       THEN [err |-> FALSE, CEP |-> StrField(v.v, KeyCep)]
       ELSE [err |-> TRUE, CEP |-> <<>>]

\* Decode(&CEPResponse)
DecodeCEPResponse(body) ==
    LET v == DecodeStream(body)
    IN IF /\ v.ok
          /\ v.v.t = "obj"
          /\ FieldOk(v.v, KeyCity, "str")
          /\ FieldOk(v.v, KeyTempC, "num")
          /\ FieldOk(v.v, KeyTempF, "num")
          /\ FieldOk(v.v, KeyTempK, "num")
       THEN [err |-> FALSE,
             val |-> [City |-> StrField(v.v, KeyCity),
                      TempC |-> NumField(v.v, KeyTempC),
                      TempF |-> NumField(v.v, KeyTempF),
                      TempK |-> NumField(v.v, KeyTempK)]]
       ELSE [err |-> TRUE]

\* json.Unmarshal(body, &ViaCEPResponse)
UnmarshalViaCEP(body) ==
    LET v == UnmarshalDoc(body)
    IN IF /\ v.ok
          /\ v.v.t = "obj"
          /\ FieldOk(v.v, KeyLocalidade, "str")
          /\ FieldOk(v.v, KeyUF, "str")
          /\ FieldOk(v.v, KeyErro, "bool")
       THEN [err |-> FALSE,
             val |-> [Localidade |-> StrField(v.v, KeyLocalidade),
                      UF |-> StrField(v.v, KeyUF),
                      Erro |-> BoolField(v.v, KeyErro)]]
       ELSE [err |-> TRUE]

\* json.Unmarshal(body, &WeatherResponse)
UnmarshalWeather(body) ==
    LET v == UnmarshalDoc(body)
    IN IF v.ok /\ v.v.t = "obj" /\ FieldOk(v.v, KeyCurrent, "obj")
       THEN IF HasKey(v.v, KeyCurrent)
            THEN LET cur == Lookup(v.v, KeyCurrent)
                 IN IF FieldOk(cur, KeyTempc, "num")
                    THEN [err |-> FALSE, TempC |-> NumField(cur, KeyTempc)]
                    ELSE [err |-> TRUE]
            ELSE [err |-> FALSE, TempC |-> 0]
       ELSE [err |-> TRUE]

(* ------------------------------ net/http -------------------------------- *)
\* http.ResponseWriter: code 0 means the header has not been written yet
NewWriter == [code |-> 0, body |-> <<>>]

\* only the first WriteHeader takes effect; a later one is superfluous
WriteHeader(w, c) == IF w.code = 0 THEN [w EXCEPT !.code = c] ELSE w

\* Write sends an implicit 200 header when none was written
Write(w, bytes) == [WriteHeader(w, 200) EXCEPT !.body = @ \o bytes]

\* http.Error(w, msg, code): WriteHeader(code), then msg and a newline
HttpError(w, msg, c) == Write(WriteHeader(w, c), msg \o <<"\n">>)

\* a byte b < ' ' || b == 0x7f makes http.NewRequest reject the URL
CtlChars == {"\t", "DEL"}

stringContainsCTLByte(s) == \E i \in 1..Len(s) : s[i] \in CtlChars

(* ---------------------------- OpenTelemetry ----------------------------- *)
SpanNames == {"handle_cep_request", "call_weather_service",
              "handle_weather_request", "get_location_from_cep", "get_weather"}

TraceIds == 1..NumTraceIds

\* the empty span context
NoSC == [trace |-> 0, span |-> "none"]

NoSpan == [st |-> "none", trace |-> 0, parent |-> "none", ends |-> 0, status |-> "unset"]

NewTracer == [spans |-> [n \in SpanNames |-> NoSpan], log |-> <<>>]

\* tracer.Start: a span under a parent context continues its trace, a root span takes a fresh identifier
StartSpan(T, name, parentSC, freshId) ==
    [T EXCEPT !.spans[name] =
        [st |-> "open",
         trace |-> IF parentSC.trace # 0 THEN parentSC.trace ELSE freshId,
         parent |-> parentSC.span,
         ends |-> 0,
         status |-> "unset"]]

SpanContextOf(T, name) == [trace |-> T.spans[name].trace, span |-> name]

\* span.SetStatus(codes.Error, ...)
SetError(T, name) == [T EXCEPT !.spans[name].status = "error"]

\* span.End()
EndSpan(T, name) ==
    [spans |-> [T.spans EXCEPT ![name].st = "ended", ![name].ends = @ + 1],
     log |-> Append(T.log, name)]

\* variant: only the innermost span is ended on return
RunDeferred_InnerOnly(T, stack) ==
    IF Len(stack) = 0 THEN T ELSE EndSpan(T, stack[Len(stack)])

\* the deferred span.End() calls of a function run last-registered first when it returns
RECURSIVE RunDeferred(_, _)
RunDeferred(T, stack) ==
    IF Len(stack) = 0 THEN T
    ELSE RunDeferred(EndSpan(T, stack[Len(stack)]), SubSeq(stack, 1, Len(stack) - 1))

\* otel.GetTextMapPropagator() in initTracer: neither service registers a propagator with
\* otel.SetTextMapPropagator, so the global one is the no-op default
propagatorA == "noop"

propagatorB == "noop"

NoHeaders == [traceparent |-> NoSC]

\* propagator.Inject(ctx, carrier)
Inject(p, sc, hdr) == IF p = "tracecontext" THEN [hdr EXCEPT !.traceparent = sc] ELSE hdr

\* propagator.Extract(ctx, carrier): the remote span context, or none
Extract(p, hdr) == IF p = "tracecontext" THEN hdr.traceparent ELSE NoSC

(* ------------------------------ pure functions -------------------------- *)
\* variant: the pattern without its anchors, \d{8}
validateCEP_Unanchored(cep) ==
    \E i \in 1..Len(cep) : i + 7 <= Len(cep) /\ \A j \in i..(i + 7) : IsDigit(cep[j])

\* regexp ^\d{8}$
validateCEP(cep) == Len(cep) = 8 /\ \A i \in 1..Len(cep) : IsDigit(cep[i])

\* variant: the Kelvin offset 273.15
convertTemperatures_Offset27315(tempC) == <<(tempC * 18) \div 10 + 3200, tempC + 27315>>

\* tempF = tempC*1.8 + 32, tempK = tempC + 273 (hundredths)
convertTemperatures(tempC) == <<(tempC * 18) \div 10 + 3200, tempC + 27300>>

\* variant: the test inverted, apiKey != ""
getWeatherUsesMock_Inverted(key) == key # <<>>

\* apiKey == "" selects the simulated reading
getWeatherUsesMock(key) == key = <<>>

\* variant: the not-found flag is not looked at
LocationNotFound_Ignored(location) == FALSE

\* if location.Erro
LocationNotFound(location) == location.Erro

\* body := make([]byte, 1024); n, _ := resp.Body.Read(body)
ReadInto(data, n) == [i \in 1..BufSize |-> IF i <= n THEN data[i] ELSE "NUL"]

\* variant: w.Write(body), the whole buffer
RelayedBytes_WholeBuffer(buf, n) == buf

\* w.Write(body[:n])
RelayedBytes(buf, n) == SubSeq(buf, 1, n)

\* the timeout of the http.Client each outbound call uses (0: none)
ClientTimeoutOf(c) ==
    CASE c = "hop" -> GatewayClientTimeout
      [] c = "loc" -> LocationClientTimeout
      [] c = "wx" -> WeatherClientTimeout

(* ------------------------- inputs and environment ----------------------- *)
\* postal codes of every length up to MaxCodeLen: all digits, or digits with one other character
BadChars == {"a", " "}

FillAscending(i) == DigitChars[(i % 10) + 1]

FillNines(i) == "9"

CodesOfLen(n) ==
    UNION {{[i \in 1..n |-> IF i = p THEN bad ELSE FillAscending(i)],
            [i \in 1..n |-> IF i = p THEN bad ELSE FillNines(i)]} :
           p \in 0..n, bad \in BadChars}

Codes == UNION {CodesOfLen(n) : n \in 0..MaxCodeLen}

TxtGarbage == <<"<", "h", "1", ">">>

\* request bodies a client sends: {"cep":"<code>"} for every code, and bodies of other shapes
RequestBodies ==
    {MarshalCEPRequest([CEP |-> c]) : c \in Codes}
    \cup {<<>>,
          <<"{">>,
          <<"{", "}">>,
          <<"{">> \o Member(KeyCep, <<"1", "2">>) \o <<"}">>,
          <<"{">> \o Quote(KeyCep) \o <<":", " ">>
                  \o Quote([i \in 1..8 |-> FillNines(i)]) \o <<"}">>,
          MarshalCEPRequest([CEP |-> [i \in 1..8 |-> FillNines(i)]]) \o TxtGarbage}

\* trace headers a direct caller of POST /weather may send
ClientHeaders ==
    {NoHeaders} \cup {[traceparent |-> [trace |-> t, span |-> "remote"]] : t \in TraceIds}

Cities == {<<"X">>, <<>>, <<"X", "DEL">>}

DocFound(city) ==
    <<"{">> \o Member(KeyLocalidade, Quote(city)) \o <<",">>
            \o Member(KeyUF, Quote(<<"E", "S">>)) \o <<"}">>

DocNotFound == <<"{">> \o Member(KeyErro, <<"t","r","u","e">>) \o <<"}">>

DocErroAsText == <<"{">> \o Member(KeyErro, Quote(<<"t","r","u","e">>)) \o <<"}">>

LocationBodies ==
    {DocFound(c) : c \in Cities}
    \cup {DocNotFound, DocErroAsText, <<"{", "}">>, TxtGarbage, DocFound(<<"X">>) \o TxtGarbage}

\* what http.Get / client.Do yields: a transport error, or a status and a body
\* (readErr: the body cannot be read to its end)
NetError == [err |-> TRUE, code |-> 0, body |-> <<>>, readErr |-> FALSE, avail |-> 0]

Reply(code, body, readErr, avail) ==
    [err |-> FALSE, code |-> code, body |-> body, readErr |-> readErr, avail |-> avail]

LocationReplies ==
    {Reply(c, d, FALSE, Len(d)) : c \in {200, 500}, d \in LocationBodies}
    \cup {Reply(200, DocFound(<<"X">>), TRUE, 0)}

Readings == {1250 * t : t \in (0 - MaxReading)..MaxReading}

DocWeather(tempC) ==
    <<"{">> \o Member(KeyCurrent, <<"{">> \o Member(KeyTempc, FormatFloat(tempC)) \o <<"}">>)
            \o <<"}">>

WeatherReplies ==
    {Reply(200, DocWeather(t), FALSE, 0) : t \in Readings}
    \cup {Reply(200, <<"{", "}">>, FALSE, 0),
          Reply(200, TxtGarbage, FALSE, 0),
          Reply(200, DocWeather(2500), TRUE, 0),
          Reply(401, DocWeather(2500), FALSE, 0),
          Reply(401, TxtGarbage, FALSE, 0)}

\* answers of a server other than this Resolver Proxy listening at service-b:8081;
\* avail is what the first Read of the body can return
Letters == <<"a", "b", "c", "d", "e", "f", "g">>

LongBody(n) == [i \in 1..n |-> Letters[(i % 7) + 1]]

PeerBodies ==
    {<<>>, <<"{", "}">>, TxtGarbage, TxtCanNotFind,
     EncodeCEPResponse([City |-> <<"X">>, TempC |-> 2500, TempF |-> 7700, TempK |-> 29800]),
     LongBody(BufSize - 1), LongBody(BufSize), LongBody(BufSize + 1)}

PeerReplies ==
    UNION {{Reply(c, d, FALSE, Len(d)), Reply(c, d, FALSE, (Len(d) + 1) \div 2)} :
           c \in {200, 404, 503}, d \in PeerBodies}

(* --------------------------------- state -------------------------------- *)
VARIABLES
    apiKey,   \* WEATHER_API_KEY in the Resolver Proxy's environment
    client,   \* the request the client issued: entry point, method, headers, body
    a,        \* the Gateway's handleCEP: position and ResponseWriter
    b,        \* the Resolver Proxy's handleWeather: position, request, ResponseWriter, locals
    net,      \* the outbound calls: hop (Gateway -> Resolver Proxy), loc (ViaCEP), wx (WeatherAPI)
    tracer,   \* spans started so far and the order in which they ended
    calls     \* how many times each outbound call was issued

vars == <<apiKey, client, a, b, net, tracer, calls>>

CallNames == {"hop", "loc", "wx"}

NoCall == [st |-> "none", req |-> [hdr |-> NoHeaders, body |-> <<>>], resp |-> NetError]

IdleB == [pc |-> "idle", method |-> "POST", hdr |-> NoHeaders, body |-> <<>>,
          w |-> NewWriter, cep |-> <<>>, city |-> <<>>, tempC |-> 0]

Init ==
    /\ apiKey \in {<<>>, <<"k">>}
    /\ client = [entry |-> "none", method |-> "POST", hdr |-> NoHeaders, body |-> <<>>]
    /\ a = [pc |-> "idle", w |-> NewWriter]
    /\ b = IdleB
    /\ net = [c \in CallNames |-> NoCall]
    /\ tracer = NewTracer
    /\ calls = [c \in CallNames |-> 0]

(* --------------------------------- client ------------------------------- *)
\* a client posts to the Gateway (/cep) or straight to the Resolver Proxy (/weather)
ClientRequest ==
    /\ client.entry = "none"
    /\ \E e \in {"gateway", "resolver"}, m \in {"POST", "GET"},
          body \in RequestBodies, hdr \in ClientHeaders :
         /\ e = "gateway" => hdr = NoHeaders
         /\ client' = [entry |-> e, method |-> m, hdr |-> hdr, body |-> body]
         /\ IF e = "gateway"
            THEN a' = [a EXCEPT !.pc = "recv"] /\ b' = b
            ELSE a' = a /\ b' = [b EXCEPT !.pc = "recv", !.method = m, !.hdr = hdr, !.body = body]
    /\ UNCHANGED <<apiKey, net, tracer, calls>>

(* ----------------------------- Gateway: handleCEP ----------------------- *)
\* from the entry of handleCEP to the point where client.Do blocks, or to an early return
handleCEP_Begin ==
    /\ a.pc = "recv"
    /\ \E freshId \in TraceIds :
         IF client.method # "POST"
         THEN /\ a' = [pc |-> "done", w |-> HttpError(a.w, TxtMethodNotAllowed, 405)]
              /\ UNCHANGED <<net, tracer, calls>>
         ELSE \E T1 \in {StartSpan(tracer, "handle_cep_request", NoSC, freshId)},
                 req \in {DecodeCEPRequest(client.body)} :
                 IF req.err
                 THEN /\ a' = [pc |-> "done", w |-> HttpError(a.w, TxtInvalidJSON, 400)]
                      /\ tracer' = RunDeferred(SetError(T1, "handle_cep_request"),
                                               <<"handle_cep_request">>)
                      /\ UNCHANGED <<net, calls>>
                 ELSE IF ~validateCEP(req.CEP)
                 THEN /\ a' = [pc |-> "done",
                               w |-> Write(WriteHeader(a.w, 422), TxtInvalidZipcode)]
                      /\ tracer' = RunDeferred(SetError(T1, "handle_cep_request"),
                                               <<"handle_cep_request">>)
                      /\ UNCHANGED <<net, calls>>
                 ELSE LET requestBody == MarshalCEPRequest([CEP |-> req.CEP])
                          T2 == StartSpan(T1, "call_weather_service",
                                          SpanContextOf(T1, "handle_cep_request"), freshId)
                          hdr == Inject(propagatorA,
                                        SpanContextOf(T2, "call_weather_service"), NoHeaders)
                      IN /\ a' = [a EXCEPT !.pc = "await"]
                         /\ tracer' = T2
                         /\ net' = [net EXCEPT !["hop"] =
                                       [st |-> "sent",
                                        req |-> [hdr |-> hdr, body |-> requestBody],
                                        resp |-> NetError]]
                         /\ calls' = [calls EXCEPT !["hop"] = @ + 1]
    /\ UNCHANGED <<apiKey, client, b>>

\* the response the Gateway writes once client.Do has returned resp
GatewayRelay(w, resp) ==
    LET w1 == WriteHeader(w, resp.code)
    IN IF resp.code = 200
       THEN LET d == DecodeCEPResponse(resp.body)
            IN IF d.err THEN HttpError(w1, TxtErrorDecoding, 500)
               ELSE Write(w1, EncodeCEPResponse(d.val))
       ELSE LET n == Min(BufSize, resp.avail)
            IN Write(w1, RelayedBytes(ReadInto(resp.body, n), n))

\* from the return of client.Do to the return of handleCEP
handleCEP_Resume ==
    /\ a.pc = "await"
    /\ net["hop"].st \in {"failed", "answered"}
    /\ LET resp == net["hop"].resp
           defers == <<"handle_cep_request", "call_weather_service">>
       IN IF net["hop"].st = "failed"
          THEN /\ a' = [pc |-> "done", w |-> HttpError(a.w, TxtInternalError, 500)]
               /\ tracer' = RunDeferred(SetError(tracer, "call_weather_service"), defers)
          ELSE /\ a' = [pc |-> "done", w |-> GatewayRelay(a.w, resp)]
               /\ tracer' = RunDeferred(
                      IF resp.code = 200 /\ ~DecodeCEPResponse(resp.body).err
                      THEN tracer ELSE SetError(tracer, "handle_cep_request"), defers)
    /\ UNCHANGED <<apiKey, client, b, net, calls>>

(* ------------------------ Resolver Proxy: handleWeather ----------------- *)
\* from the entry of handleWeather to the point where http.Get blocks inside
\* getLocationFromCEP, or to an early return
handleWeather_Begin ==
    /\ b.pc = "recv"
    /\ \E freshId \in TraceIds :
         IF b.method # "POST"
         THEN /\ b' = [b EXCEPT !.pc = "done",
                                !.w = HttpError(b.w, TxtMethodNotAllowed, 405)]
              /\ UNCHANGED <<net, tracer, calls>>
         ELSE \E T1 \in {StartSpan(tracer, "handle_weather_request",
                                       Extract(propagatorB, b.hdr), freshId)},
                 req \in {DecodeCEPRequest(b.body)} :
                 IF req.err
                 THEN /\ b' = [b EXCEPT !.pc = "done",
                                        !.w = HttpError(b.w, TxtInvalidJSON, 400)]
                      /\ tracer' = RunDeferred(SetError(T1, "handle_weather_request"),
                                               <<"handle_weather_request">>)
                      /\ UNCHANGED <<net, calls>>
                 ELSE IF ~validateCEP(req.CEP)
                 THEN /\ b' = [b EXCEPT !.pc = "done", !.cep = req.CEP,
                                        !.w = Write(WriteHeader(b.w, 422), TxtInvalidZipcode)]
                      /\ tracer' = RunDeferred(SetError(T1, "handle_weather_request"),
                                               <<"handle_weather_request">>)
                      /\ UNCHANGED <<net, calls>>
                 ELSE /\ b' = [b EXCEPT !.pc = "awaitLoc", !.cep = req.CEP]
                      /\ tracer' = StartSpan(T1, "get_location_from_cep",
                                             SpanContextOf(T1, "handle_weather_request"),
                                             freshId)
                      /\ net' = [net EXCEPT !["loc"] =
                                    [st |-> "sent",
                                     req |-> [hdr |-> NoHeaders, body |-> req.CEP],
                                     resp |-> NetError]]
                      /\ calls' = [calls EXCEPT !["loc"] = @ + 1]
    /\ UNCHANGED <<apiKey, client, a>>

\* what getLocationFromCEP returns for the outcome of http.Get
getLocationFromCEP(resp) ==
    IF resp.err \/ resp.readErr THEN [err |-> TRUE]
    ELSE UnmarshalViaCEP(resp.body)

\* what getWeather returns for the outcome of client.Do
getWeather(resp) ==
    IF resp.err THEN [err |-> TRUE]
    ELSE IF resp.code # 200 THEN [err |-> TRUE]
    ELSE IF resp.readErr THEN [err |-> TRUE]
    ELSE UnmarshalWeather(resp.body)

\* the 200 response handleWeather composes from the city and the reading
ComposeResponse(city, tempC) ==
    LET conv == convertTemperatures(tempC)
    IN [City |-> city, TempC |-> tempC, TempF |-> conv[1], TempK |-> conv[2]]

WriteComposite(w, city, tempC) ==
    Write(WriteHeader(w, 200), EncodeCEPResponse(ComposeResponse(city, tempC)))

\* handleWeather returns after writing w: its deferred span.End() runs
ReturnB(w, T, failed) ==
    /\ b' = [b EXCEPT !.pc = "done", !.w = w]
    /\ tracer' = RunDeferred(IF failed THEN SetError(T, "handle_weather_request") ELSE T,
                             <<"handle_weather_request">>)

\* getWeather(ctx, city) up to its first return or to the point where client.Do blocks;
\* T is the tracer after getLocationFromCEP returned
CallGetWeather(T, city) ==
    \E T3 \in {StartSpan(T, "get_weather", SpanContextOf(T, "handle_weather_request"), 0)} :
       IF getWeatherUsesMock(apiKey)
       THEN /\ b' = [b EXCEPT !.pc = "done", !.city = city, !.tempC = MockTempC,
                              !.w = WriteComposite(b.w, city, MockTempC)]
            /\ tracer' = RunDeferred(RunDeferred(T3, <<"get_weather">>),
                                     <<"handle_weather_request">>)
            /\ UNCHANGED <<net, calls>>
       ELSE IF stringContainsCTLByte(city)
       THEN /\ b' = [b EXCEPT !.pc = "done", !.city = city,
                              !.w = HttpError(b.w, TxtInternalError, 500)]
            /\ tracer' = RunDeferred(
                   SetError(RunDeferred(SetError(T3, "get_weather"), <<"get_weather">>),
                            "handle_weather_request"),
                   <<"handle_weather_request">>)
            /\ UNCHANGED <<net, calls>>
       ELSE /\ b' = [b EXCEPT !.pc = "awaitWx", !.city = city]
            /\ tracer' = T3
            /\ net' = [net EXCEPT !["wx"] =
                          [st |-> "sent",
                           req |-> [hdr |-> NoHeaders, body |-> city],
                           resp |-> NetError]]
            /\ calls' = [calls EXCEPT !["wx"] = @ + 1]

\* from the return of http.Get to the point where client.Do blocks inside getWeather,
\* or to the return of handleWeather
handleWeather_AfterLocation ==
    /\ b.pc = "awaitLoc"
    /\ net["loc"].st \in {"failed", "answered"}
    /\ \E res \in {getLocationFromCEP(net["loc"].resp)} :
       \E T2 \in {RunDeferred(IF res.err \/ res.val.Erro
                              THEN SetError(tracer, "get_location_from_cep") ELSE tracer,
                              <<"get_location_from_cep">>)} :
          IF res.err
          THEN /\ ReturnB(HttpError(b.w, TxtInternalError, 500), T2, TRUE)
               /\ UNCHANGED <<net, calls>>
          ELSE IF LocationNotFound(res.val)
          THEN /\ ReturnB(Write(WriteHeader(b.w, 404), TxtCanNotFind), T2, TRUE)
               /\ UNCHANGED <<net, calls>>
          ELSE CallGetWeather(T2, res.val.Localidade)
    /\ UNCHANGED <<apiKey, client, a>>

\* from the return of client.Do inside getWeather to the return of handleWeather
handleWeather_AfterWeather ==
    /\ b.pc = "awaitWx"
    /\ net["wx"].st \in {"failed", "answered"}
    /\ \E res \in {getWeather(net["wx"].resp)} :
       \E T1 \in {RunDeferred(IF res.err THEN SetError(tracer, "get_weather") ELSE tracer,
                              <<"get_weather">>)} :
          IF res.err
          THEN /\ b' = [b EXCEPT !.pc = "done",
                                 !.w = HttpError(b.w, TxtInternalError, 500)]
               /\ tracer' = RunDeferred(SetError(T1, "handle_weather_request"),
                                        <<"handle_weather_request">>)
          ELSE /\ b' = [b EXCEPT !.pc = "done", !.tempC = res.TempC,
                                 !.w = WriteComposite(b.w, b.city, res.TempC)]
               /\ tracer' = RunDeferred(T1, <<"handle_weather_request">>)
    /\ UNCHANGED <<apiKey, client, a, net, calls>>

(* --------------------------------- network ------------------------------ *)
\* the call fails in transport (refused connection, reset)
NetFail(c) ==
    /\ net[c].st = "sent"
    /\ net' = [net EXCEPT ![c].st = "failed", ![c].resp = NetError]
    /\ UNCHANGED <<apiKey, client, a, b, tracer, calls>>

\* the collaborator accepts the call and never answers
NetSilent(c) ==
    /\ net[c].st = "sent"
    /\ net' = [net EXCEPT ![c].st = "silent"]
    /\ UNCHANGED <<apiKey, client, a, b, tracer, calls>>

\* http.Client.Timeout expires while the call is outstanding
ClientTimeout(c) ==
    /\ net[c].st \in {"sent", "silent", "delivered"}
    /\ ClientTimeoutOf(c) > 0
    /\ net' = [net EXCEPT ![c].st = "failed", ![c].resp = NetError]
    /\ UNCHANGED <<apiKey, client, a, b, tracer, calls>>

\* the Gateway's request reaches the Resolver Proxy, whose handler starts
HopDeliver ==
    /\ net["hop"].st = "sent"
    /\ b.pc = "idle"
    /\ net' = [net EXCEPT !["hop"].st = "delivered"]
    /\ b' = [b EXCEPT !.pc = "recv", !.method = "POST",
                      !.hdr = net["hop"].req.hdr, !.body = net["hop"].req.body]
    /\ UNCHANGED <<apiKey, client, a, tracer, calls>>

\* the Resolver Proxy's handler has returned; its response, written without an
\* intermediate flush, reaches the Gateway whole
HopReturn ==
    /\ net["hop"].st = "delivered"
    /\ b.pc = "done"
    /\ net' = [net EXCEPT !["hop"].st = "answered",
                          !["hop"].resp = Reply(b.w.code, b.w.body, FALSE, Len(b.w.body))]
    /\ UNCHANGED <<apiKey, client, a, b, tracer, calls>>

\* another server answers at service-b:8081
PeerAnswer ==
    /\ net["hop"].st = "sent"
    /\ \E r \in PeerReplies :
         net' = [net EXCEPT !["hop"].st = "answered", !["hop"].resp = r]
    /\ UNCHANGED <<apiKey, client, a, b, tracer, calls>>

\* ViaCEP answers
LocationReply ==
    /\ net["loc"].st = "sent"
    /\ \E r \in LocationReplies :
         net' = [net EXCEPT !["loc"].st = "answered", !["loc"].resp = r]
    /\ UNCHANGED <<apiKey, client, a, b, tracer, calls>>

\* WeatherAPI answers
WeatherReply ==
    /\ net["wx"].st = "sent"
    /\ \E r \in WeatherReplies :
         net' = [net EXCEPT !["wx"].st = "answered", !["wx"].resp = r]
    /\ UNCHANGED <<apiKey, client, a, b, tracer, calls>>

Next ==
    \/ ClientRequest
    \/ handleCEP_Begin
    \/ handleCEP_Resume
    \/ handleWeather_Begin
    \/ handleWeather_AfterLocation
    \/ handleWeather_AfterWeather
    \/ \E c \in CallNames : NetFail(c)
    \/ \E c \in CallNames : NetSilent(c)
    \/ \E c \in CallNames : ClientTimeout(c)
    \/ HopDeliver
    \/ HopReturn
    \/ PeerAnswer
    \/ LocationReply
    \/ WeatherReply

Spec == Init /\ [][Next]_vars

(* ================================ properties ============================ *)
\* the code the request carries, and whether it is 8 decimal digits
RequestCode == DecodeCEPRequest(client.body)

DecimalDigits == {"0", "1", "2", "3", "4", "5", "6", "7", "8", "9"}

EightDigits(c) == Len(c) = 8 /\ \A i \in 1..Len(c) : c[i] \in DecimalDigits

NoCalls == \A c \in CallNames : calls[c] = 0 /\ net[c].st = "none"

Rejected422 == [code |-> 422, body |-> TxtInvalidZipcode]

\* C1: a POST whose code is not exactly 8 decimal digits is answered 422 "invalid zipcode"
\* by the Gateway and by the Resolver Proxy called directly, and no collaborator is ever
\* invoked for it; a code of exactly 8 decimal digits passes validation and the request
\* proceeds to the next hop.
C1_InvalidCodeRejected ==
    (client.entry # "none" /\ client.method = "POST" /\ ~RequestCode.err) =>
        IF ~EightDigits(RequestCode.CEP)
        THEN /\ NoCalls
             /\ client.entry = "gateway" =>
                    /\ a.pc \in {"recv", "done"}
                    /\ b.pc = "idle"
                    /\ a.pc = "done" => a.w = Rejected422
             /\ client.entry = "resolver" =>
                    /\ b.pc \in {"recv", "done"}
                    /\ b.pc = "done" => b.w = Rejected422
        ELSE /\ client.entry = "gateway" =>
                    (a.pc # "recv" => calls["hop"] = 1 /\ net["hop"].st # "none")
             /\ b.pc \notin {"idle", "recv"} => calls["loc"] = 1 /\ net["loc"].st # "none"

\* an 8-character code with a non-digit was rejected by the Gateway
C1_Witness ==
    /\ client.entry = "gateway"
    /\ client.method = "POST"
    /\ ~RequestCode.err
    /\ Len(RequestCode.CEP) = 8
    /\ ~EightDigits(RequestCode.CEP)
    /\ a.pc = "done"
    /\ a.w = Rejected422

\* ViaCEP answered with the not-found document
LocationSaidNotFound ==
    /\ net["loc"].st = "answered"
    /\ ~net["loc"].resp.readErr
    /\ net["loc"].resp.body = DocNotFound

NotFound404 == [code |-> 404, body |-> TxtCanNotFind]

\* C2: when Location Lookup answers found=false (erro=true), the Resolver Proxy answers
\* 404 "can not find zipcode", Weather Lookup is never invoked during the request, and
\* the Gateway relays the 404 and its body to the caller.
C2_NotFoundIs404 ==
    LocationSaidNotFound =>
        /\ calls["wx"] = 0
        /\ net["wx"].st = "none"
        /\ tracer.spans["get_weather"].st = "none"
        /\ b.pc = "done" => b.w = NotFound404
        /\ (a.pc = "done" /\ net["hop"].st = "answered") => a.w = NotFound404

\* the Gateway relayed the Resolver Proxy's 404
C2_Witness ==
    /\ LocationSaidNotFound
    /\ client.entry = "gateway"
    /\ b.pc = "done"
    /\ a.pc = "done"
    /\ net["hop"].st = "answered"
    /\ a.w = NotFound404

\* the lookups answered 200 with place name city and reading tempC
LookupsAnswered(city, tempC) ==
    /\ net["loc"].st = "answered"
    /\ net["loc"].resp = Reply(200, DocFound(city), FALSE, Len(DocFound(city)))
    /\ net["wx"].st = "answered"
    /\ net["wx"].resp = Reply(200, DocWeather(tempC), FALSE, 0)

\* w is 200 with a JSON body holding city, tempC, tempC*1.8+32 and tempC+273
IsComposite(w, city, tempC) ==
    /\ w.code = 200
    /\ LET d == DecodeCEPResponse(w.body)
       IN /\ ~d.err
          /\ d.val.City = city
          /\ d.val.TempC = tempC
          /\ 10 * (d.val.TempF - 3200) = 18 * tempC
          /\ d.val.TempK = tempC + 27300

\* {"city":"X","temp_C":25,"temp_F":77,"temp_K":298}
TxtExample(city) ==
    <<"{">> \o Quote(KeyCity) \o <<":">> \o Quote(city) \o <<",">>
            \o Quote(KeyTempC) \o <<":", "2", "5", ",">>
            \o Quote(KeyTempF) \o <<":", "7", "7", ",">>
            \o Quote(KeyTempK) \o <<":", "2", "9", "8", "}", "\n">>

\* C3: for a valid code whose Location Lookup returns place name X and whose Weather
\* Lookup returns the reading tempC, the response of the Resolver Proxy, and the one the
\* Gateway relays, is 200 with city = X, temp_C = tempC, temp_F = tempC*1.8+32 and
\* temp_K = tempC+273, for every reading of the bounded set; X and 25 give
\* {"city":"X","temp_C":25,"temp_F":77,"temp_K":298}.
C3_CompositeResult ==
    \A city \in Cities, tempC \in Readings :
        LookupsAnswered(city, tempC) =>
            /\ b.pc = "done" =>
                   /\ IsComposite(b.w, city, tempC)
                   /\ tempC = 2500 => b.w.body = TxtExample(city)
            /\ (a.pc = "done" /\ net["hop"].st = "answered") =>
                   /\ IsComposite(a.w, city, tempC)
                   /\ tempC = 2500 => a.w.body = TxtExample(city)

\* the Gateway relayed a composite computed from a reading of -12.5 C
C3_Witness ==
    /\ LookupsAnswered(<<"X">>, -1250)
    /\ client.entry = "gateway"
    /\ a.pc = "done"
    /\ net["hop"].st = "answered"
    /\ a.w.code = 200

\* C4: for every request the Gateway forwards, the trace identifier of the Gateway's
\* active span is written into the outbound headers, and the span the Resolver Proxy
\* starts for that request carries the same trace identifier.
C4_TraceContinued ==
    /\ net["hop"].st # "none" =>
           /\ tracer.spans["call_weather_service"].trace \in TraceIds
           /\ net["hop"].req.hdr.traceparent.trace =
                  tracer.spans["call_weather_service"].trace
    /\ (client.entry = "gateway" /\ tracer.spans["handle_weather_request"].st # "none") =>
           tracer.spans["handle_weather_request"].trace =
               tracer.spans["handle_cep_request"].trace

\* the Gateway received a 200 whose body is no JSON document
Undecodable200 ==
    /\ net["hop"].st = "answered"
    /\ net["hop"].resp.code = 200
    /\ net["hop"].resp.body \in {<<>>, TxtGarbage}

\* C5: when the Resolver Proxy answers 200 but its body cannot be decoded into the
\* composite result, the Gateway's response to the caller has status 500.
C5_DecodeFailureIs500 ==
    (a.pc = "done" /\ Undecodable200) => a.w.code = 500

\* the call c failed: a transport error, a timeout, or an answer other than 200
UpstreamFailed(c) ==
    \/ net[c].st = "failed"
    \/ net[c].st = "answered" /\ net[c].resp.code # 200

Opaque500 == [code |-> 500, body |-> TxtInternalError \o <<"\n">>]

\* C6: whenever Location Lookup or Weather Lookup fails with a network error, a timeout
\* or a non-200 status, the Resolver Proxy answers 500 (never 200, never 404) with a body
\* that holds nothing of the dependency's status or body.
C6_UpstreamFailureIs500 ==
    (b.pc = "done" /\ (UpstreamFailed("loc") \/ UpstreamFailed("wx"))) => b.w = Opaque500

\* C7: each of the three outbound calls (Gateway to Resolver Proxy, Location Lookup,
\* Weather Lookup) is bounded by a fixed timeout: whenever a collaborator has accepted a
\* call and never answers, the caller's timer is running and its expiry returns the call
\* with an error, so that the request can still be answered.
C7_SilentCallTimesOut ==
    \A c \in CallNames : net[c].st = "silent" => ENABLED ClientTimeout(c)

\* p is a prefix of s
IsPrefix(p, s) == Len(p) <= Len(s) /\ SubSeq(s, 1, Len(p)) = p

\* C8: when the Resolver Proxy answers with a status other than 200, the Gateway's
\* response carries exactly that status and a body that is an unmodified prefix of the
\* downstream body, at most 1024 bytes long.
C8_ErrorPassThrough ==
    (a.pc = "done" /\ net["hop"].st = "answered" /\ net["hop"].resp.code # 200) =>
        /\ a.w.code = net["hop"].resp.code
        /\ IsPrefix(a.w.body, net["hop"].resp.body)
        /\ Len(a.w.body) <= 1024

\* a 503 with a body of 1025 bytes was relayed cut to 1024
C8_Witness ==
    /\ a.pc = "done"
    /\ net["hop"].st = "answered"
    /\ net["hop"].resp.code = 503
    /\ Len(net["hop"].resp.body) = 1025
    /\ Len(a.w.body) = 1024

\* ViaCEP answered 200 with a document naming city
LocationFound(city) ==
    /\ net["loc"].st = "answered"
    /\ net["loc"].resp = Reply(200, DocFound(city), FALSE, Len(DocFound(city)))

\* C9: with the weather-provider credential unset, for every valid code whose location
\* is found, the Weather Lookup step makes no external call, yields the fixed reading
\* 25.0 C without error, and the request ends with 200 (temp_C 25, temp_F 77, temp_K 298).
C9_FallbackReading ==
    \A city \in Cities :
        (apiKey = <<>> /\ LocationFound(city)) =>
            /\ calls["wx"] = 0
            /\ net["wx"].st = "none"
            /\ b.pc \in {"awaitLoc", "done"}
            /\ b.pc = "done" =>
                   /\ b.w = [code |-> 200, body |-> TxtExample(city)]
                   /\ tracer.spans["get_weather"].st = "ended"
                   /\ tracer.spans["get_weather"].status = "unset"
                   /\ tracer.spans["handle_weather_request"].status = "unset"

\* a request answered 200 from the simulated reading
C9_Witness ==
    /\ apiKey = <<>>
    /\ LocationFound(<<"X">>)
    /\ b.pc = "done"
    /\ b.w.code = 200
    /\ tracer.spans["get_weather"].st = "ended"

\* position of span n in the order of ends (0: not ended)
EndIndex(n) ==
    IF \E i \in 1..Len(tracer.log) : tracer.log[i] = n
    THEN CHOOSE i \in 1..Len(tracer.log) : tracer.log[i] = n
    ELSE 0

\* the operation that started span n is still running
OperationRunning(n) ==
    CASE n = "handle_cep_request" -> a.pc = "await"
      [] n = "call_weather_service" -> a.pc = "await"
      [] n = "handle_weather_request" -> b.pc \in {"awaitLoc", "awaitWx"}
      [] n = "get_location_from_cep" -> b.pc = "awaitLoc"
      [] n = "get_weather" -> b.pc = "awaitWx"

\* C10: every span a hop starts is ended exactly once on every exit path of the operation
\* that started it, before that operation returns; a child span is ended no later than
\* its parent, and no span stays open once the response is complete.
C10_SpansClosed ==
    \A n \in SpanNames :
        LET sp == tracer.spans[n]
        IN /\ sp.ends <= 1
           /\ sp.st = "open" => OperationRunning(n)
           /\ sp.st = "ended" => sp.ends = 1 /\ EndIndex(n) > 0
           /\ (sp.st # "none" /\ sp.parent \in SpanNames /\ EndIndex(sp.parent) > 0) =>
                  (EndIndex(n) > 0 /\ EndIndex(n) < EndIndex(sp.parent))

\* all five spans of a request through both hops were started and ended
C10_Witness ==
    /\ client.entry = "gateway"
    /\ a.pc = "done"
    /\ b.pc = "done"
    /\ \A n \in SpanNames : tracer.spans[n].st = "ended"
    /\ Len(tracer.log) = 5

\* the handler that issued call c has returned
CallerDone(c) == IF c = "hop" THEN a.pc = "done" ELSE b.pc = "done"

\* the response of the handler that issued call c
CallerResponse(c) == IF c = "hop" THEN a.w ELSE b.w

\* C11: within one request each outbound call (Gateway to Resolver Proxy, Location
\* Lookup, Weather Lookup) is issued at most once, and a failed call (network error,
\* timeout or non-200 answer) ends the request: a failed Location Lookup is never
\* followed by a Weather Lookup, and the handler that made the failed call answers with
\* an error status.
C11_OneAttemptFailFast ==
    /\ \A c \in CallNames : calls[c] <= 1
    /\ UpstreamFailed("loc") => (calls["wx"] = 0 /\ net["wx"].st = "none")
    /\ \A c \in CallNames :
         (UpstreamFailed(c) /\ CallerDone(c)) => CallerResponse(c).code >= 400
====
